---- MODULE Spec2Model ----
(***************************************************************************)
(* The users controller (src/api/components/users/users-controller.js):    *)
(* six Express handlers over the users service.  A handler runs its        *)
(* synchronous prefix when it is invoked, then suspends at each awaited    *)
(* service call; the service performs the call atomically on the store and *)
(* the handler's continuation (which reads only the handler's own locals)  *)
(* runs up to the next await or to the response.  Several requests are in  *)
(* flight at once and interleave at the awaits.                            *)
(***************************************************************************)
EXTENDS Integers, FiniteSets, TLC

(* Bounds of the model: requests in flight at once, ids the store hands
   out, and the values a request may carry. *)
MaxReq == 2
MaxId == 2
NumNames == 1
NumEmails == 2
NumPasswords == 2

Req == 1..MaxReq
Ids == 1..MaxId
Names == 1..NumNames
Emails == 1..NumEmails
Passwords == 1..NumPasswords

VARIABLES users, nextId, reqs

vars == <<users, nextId, reqs>>

(* JavaScript null (what the service's lookups give for no user). *)
NULL == [null |-> TRUE]

(* No value yet: a local not assigned, a response not sent, no error. *)
NONE == [none |-> TRUE]

(* ---------------- utils/password ---------------- *)

(* hashPassword: a one-way hash, never the plaintext itself. *)
hashPassword(password) == <<"hash", password>>

(* passwordMatched(password, hashedPassword) *)
passwordMatched(password, hashedPassword) == hashedPassword = hashPassword(password)

(* ---------------- core/errors ---------------- *)

errorResponder(errorType, message) == [type |-> errorType, message |-> message]

(* An exception of a downstream collaborator (not a typed error). *)
ServiceException == [type |-> "Error", message |-> "service exception"]

(* ---------------- users-service (the store and its operations) -------- *)

User(id, name, email, password) ==
    [id |-> id, name |-> name, email |-> email, password |-> hashPassword(password)]

(* usersService.getUsers() *)
SvcGetUsers == {users[i] : i \in {j \in Ids : users[j] # NULL}}

(* usersService.getUser(id) *)
SvcGetUser(id) == users[id]

(* usersService.getUserByEmail(email): a user with that email, or null. *)
SvcGetUserByEmail(email) ==
    LET hits == {i \in Ids : users[i] # NULL /\ users[i].email = email}
    IN  IF hits = {} THEN NULL
        ELSE users[CHOOSE i \in hits : \A j \in hits : i <= j]

(* ---------------- the request being handled ---------------- *)

(* One handler invocation: the handler and the await it is suspended at (pc),
   its inputs (request.params, request.body), its locals (user, success), what
   it sent (status, body, responses: calls of response.json), what its catch
   forwarded (thrown, error, nexts: calls of next).  calls, changed and
   createdId record what the invocation did at the service: the calls it
   made, whether one of them changed the store, the id its createUser
   stored the new user under. *)
Idle ==
    [handler |-> "none", pc |-> "idle",
     id |-> 0, name |-> 0, email |-> 0,
     password |-> 0, password_confirm |-> 0,
     password_old |-> 0, password_new |-> 0, password_new_confirm |-> 0,
     user |-> NONE, success |-> NONE,
     status |-> 0, body |-> NONE, responses |-> 0,
     thrown |-> NONE, error |-> NONE, nexts |-> 0,
     calls |-> {}, changed |-> FALSE, createdId |-> 0]

(* response.status(200).json(body) *)
Respond(q, body) ==
    [q EXCEPT !.pc = "done", !.status = 200, !.body = body, !.responses = @ + 1]

(* A catch that wraps what it caught in a typed error of its own. *)
CatchWrapped(error) == [type |-> "SERVER", message |-> error.message]

(* catch (error) { return next(error); } *)
CatchForward(error) == error

Throw(q, error) ==
    [q EXCEPT !.pc = "done", !.thrown = error,
              !.error = CatchForward(error), !.nexts = @ + 1]

(* The service call the handler awaits is made. *)
Called(q, call) == [q EXCEPT !.calls = @ \cup {call}]

Init ==
    /\ users = [i \in Ids |-> NULL]
    /\ nextId = 1
    /\ reqs = [r \in Req |-> Idle]

(* ---------------- getUsers ---------------- *)

GetUsersStart(r) ==
    /\ reqs[r].pc = "idle"
    /\ reqs' = [reqs EXCEPT ![r] = [Idle EXCEPT !.handler = "getUsers", !.pc = "getUsers"]]
    /\ UNCHANGED <<users, nextId>>

GetUsersAwait(r) ==
    /\ reqs[r].handler = "getUsers" /\ reqs[r].pc = "getUsers"
    /\ reqs' = [reqs EXCEPT ![r] = Respond(Called(@, "getUsers"), SvcGetUsers)]
    /\ UNCHANGED <<users, nextId>>

(* ---------------- getUser ---------------- *)

(* The check written against undefined: null passes it. *)
GetUserMissingUndefined(user) == user = NONE

(* if (!user) *)
GetUserMissing(user) == user = NULL

GetUserStart(r, id) ==
    /\ reqs[r].pc = "idle"
    /\ reqs' = [reqs EXCEPT ![r] =
                  [Idle EXCEPT !.handler = "getUser", !.pc = "getUser", !.id = id]]
    /\ UNCHANGED <<users, nextId>>

GetUserAwait(r) ==
    /\ reqs[r].handler = "getUser" /\ reqs[r].pc = "getUser"
    /\ LET user == SvcGetUser(reqs[r].id)
           q == [Called(reqs[r], "getUser") EXCEPT !.user = user]
       IN  reqs' = [reqs EXCEPT ![r] =
                      IF GetUserMissing(user)
                      THEN Throw(q, errorResponder("UNPROCESSABLE_ENTITY", "Unknown user"))
                      ELSE Respond(q, user)]
    /\ UNCHANGED <<users, nextId>>

(* ---------------- createUser ---------------- *)

(* usersService.createUser(name, email, password): the store with the new
   user under a fresh id, its password hashed. *)
SvcCreateUser(name, email, password) ==
    [users EXCEPT ![nextId] = User(nextId, name, email, password)]

(* The check with password compared to itself. *)
CreatePasswordMismatchTypo(password, password_confirm) == password # password

(* if (password !== password_confirm) *)
CreatePasswordMismatch(password, password_confirm) == password # password_confirm

(* The check written as user === undefined: the lookup's null never is. *)
EmailTakenUndefined(user) == user = NONE

(* if (user !== null) *)
EmailTaken(user) == user # NULL

(* if (!success) *)
CreateFailed(success) == ~success

(* A response that echoes the password back. *)
CreateUserBodyEcho(q) == [name |-> q.name, email |-> q.email, password |-> q.password]

(* response.status(200).json({ name, email }) *)
CreateUserBody(q) == [name |-> q.name, email |-> q.email]

CreateUserStart(r, name, email, password, password_confirm) ==
    /\ reqs[r].pc = "idle"
    /\ LET q == [Idle EXCEPT !.handler = "createUser", !.name = name, !.email = email,
                             !.password = password,
                             !.password_confirm = password_confirm]
       IN  reqs' = [reqs EXCEPT ![r] =
                      IF CreatePasswordMismatch(password, password_confirm)
                      THEN Throw(q, errorResponder("INVALID_PASSWORD",
                                      "Failed to create user, password is not same"))
                      ELSE [q EXCEPT !.pc = "getUserByEmail"]]
    /\ UNCHANGED <<users, nextId>>

CreateUserAwaitGetUserByEmail(r) ==
    /\ reqs[r].handler = "createUser" /\ reqs[r].pc = "getUserByEmail"
    /\ LET user == SvcGetUserByEmail(reqs[r].email)
           q == [Called(reqs[r], "getUserByEmail") EXCEPT !.user = user]
       IN  reqs' = [reqs EXCEPT ![r] =
                      IF EmailTaken(user)
                      THEN Throw(q, errorResponder("EMAIL_ALREADY_TAKEN",
                                      "Failed to create user, email is already taken"))
                      ELSE [q EXCEPT !.pc = "createUser"]]
    /\ UNCHANGED <<users, nextId>>

CreateUserAwaitCreateUser(r) ==
    /\ reqs[r].handler = "createUser" /\ reqs[r].pc = "createUser"
    /\ \E success \in BOOLEAN :
        /\ success => nextId <= MaxId
        /\ users' = IF success
                    THEN SvcCreateUser(reqs[r].name, reqs[r].email, reqs[r].password)
                    ELSE users
        /\ nextId' = IF success THEN nextId + 1 ELSE nextId
        /\ LET q == [Called(reqs[r], "createUser") EXCEPT
                        !.success = success, !.changed = @ \/ (users' # users),
                        !.createdId = IF success THEN nextId ELSE 0]
           IN  reqs' = [reqs EXCEPT ![r] =
                          IF CreateFailed(success)
                          THEN Throw(q, errorResponder("UNPROCESSABLE_ENTITY",
                                          "Failed to create user"))
                          ELSE Respond(q, CreateUserBody(q))]

(* ---------------- updateUser ---------------- *)

(* usersService.updateUser(id, name, email) *)
SvcUpdateUser(id, name, email) ==
    [users EXCEPT ![id] = [@ EXCEPT !.name = name, !.email = email]]

(* if (!success) *)
UpdateFailed(success) == ~success

UpdateUserStart(r, id, name, email) ==
    /\ reqs[r].pc = "idle"
    /\ reqs' = [reqs EXCEPT ![r] =
                  [Idle EXCEPT !.handler = "updateUser", !.pc = "updateUser",
                               !.id = id, !.name = name, !.email = email]]
    /\ UNCHANGED <<users, nextId>>

UpdateUserAwait(r) ==
    /\ reqs[r].handler = "updateUser" /\ reqs[r].pc = "updateUser"
    /\ \E success \in BOOLEAN :
        /\ success => users[reqs[r].id] # NULL
        /\ users' = IF success
                    THEN SvcUpdateUser(reqs[r].id, reqs[r].name, reqs[r].email)
                    ELSE users
        /\ LET q == [Called(reqs[r], "updateUser") EXCEPT
                        !.success = success, !.changed = @ \/ (users' # users)]
           IN  reqs' = [reqs EXCEPT ![r] =
                          IF UpdateFailed(success)
                          THEN Throw(q, errorResponder("UNPROCESSABLE_ENTITY",
                                          "Failed to update user"))
                          ELSE Respond(q, [id |-> q.id])]
    /\ UNCHANGED nextId

(* ---------------- deleteUser ---------------- *)

(* usersService.deleteUser(id) *)
SvcDeleteUser(id) == [users EXCEPT ![id] = NULL]

(* The service's result not looked at. *)
DeleteFailedIgnored(success) == FALSE

(* if (!success) *)
DeleteFailed(success) == ~success

DeleteUserStart(r, id) ==
    /\ reqs[r].pc = "idle"
    /\ reqs' = [reqs EXCEPT ![r] =
                  [Idle EXCEPT !.handler = "deleteUser", !.pc = "deleteUser", !.id = id]]
    /\ UNCHANGED <<users, nextId>>

DeleteUserAwait(r) ==
    /\ reqs[r].handler = "deleteUser" /\ reqs[r].pc = "deleteUser"
    /\ \E success \in BOOLEAN :
        /\ success => users[reqs[r].id] # NULL
        /\ users' = IF success THEN SvcDeleteUser(reqs[r].id) ELSE users
        /\ LET q == [Called(reqs[r], "deleteUser") EXCEPT
                        !.success = success, !.changed = @ \/ (users' # users)]
           IN  reqs' = [reqs EXCEPT ![r] =
                          IF DeleteFailed(success)
                          THEN Throw(q, errorResponder("UNPROCESSABLE_ENTITY",
                                          "Failed to delete user"))
                          ELSE Respond(q, [id |-> q.id])]
    /\ UNCHANGED nextId

(* ---------------- updatePassword ---------------- *)

(* usersService.updatePassword(id, password) *)
SvcUpdatePassword(id, password) ==
    [users EXCEPT ![id] = [@ EXCEPT !.password = hashPassword(password)]]

(* The check with password_new compared to itself. *)
NewPasswordMismatchTypo(password_new, password_new_confirm) ==
    password_new # password_new

(* if (password_new !== password_new_confirm) *)
NewPasswordMismatch(password_new, password_new_confirm) ==
    password_new # password_new_confirm

(* if (!user) *)
UpdatePasswordUserMissing(user) == user = NULL

(* The check without its negation. *)
WrongPasswordInverted(password_old, user) ==
    passwordMatched(password_old, user.password)

(* isPasswordMatched = passwordMatched(password_old, user.password);
   if (!isPasswordMatched) *)
WrongPassword(password_old, user) == ~passwordMatched(password_old, user.password)

(* if (!isUpdatePasswordSuccess) *)
UpdatePasswordFailed(isUpdatePasswordSuccess) == ~isUpdatePasswordSuccess

UpdatePasswordStart(r, id, password_old, password_new, password_new_confirm) ==
    /\ reqs[r].pc = "idle"
    /\ LET q == [Idle EXCEPT !.handler = "updatePassword", !.id = id,
                             !.password_old = password_old,
                             !.password_new = password_new,
                             !.password_new_confirm = password_new_confirm]
       IN  reqs' = [reqs EXCEPT ![r] =
                      IF NewPasswordMismatch(password_new, password_new_confirm)
                      THEN Throw(q, errorResponder("INVALID_PASSWORD",
                                      "Failed to update password, new password is not same"))
                      ELSE [q EXCEPT !.pc = "getUser"]]
    /\ UNCHANGED <<users, nextId>>

UpdatePasswordAwaitGetUser(r) ==
    /\ reqs[r].handler = "updatePassword" /\ reqs[r].pc = "getUser"
    /\ LET user == SvcGetUser(reqs[r].id)
           q == [Called(reqs[r], "getUser") EXCEPT !.user = user]
       IN  reqs' = [reqs EXCEPT ![r] =
                      IF UpdatePasswordUserMissing(user)
                      THEN Throw(q, errorResponder("UNPROCESSABLE_ENTITY", "Unknown user"))
                      ELSE IF WrongPassword(q.password_old, user)
                      THEN Throw(q, errorResponder("INVALID_PASSWORD",
                                      "Failed to update password, wrong password"))
                      ELSE [q EXCEPT !.pc = "updatePassword"]]
    /\ UNCHANGED <<users, nextId>>

UpdatePasswordAwaitUpdatePassword(r) ==
    /\ reqs[r].handler = "updatePassword" /\ reqs[r].pc = "updatePassword"
    /\ \E success \in BOOLEAN :
        /\ success => users[reqs[r].id] # NULL
        /\ users' = IF success
                    THEN SvcUpdatePassword(reqs[r].id, reqs[r].password_new)
                    ELSE users
        /\ LET q == [Called(reqs[r], "updatePassword") EXCEPT
                        !.success = success, !.changed = @ \/ (users' # users)]
           IN  reqs' = [reqs EXCEPT ![r] =
                          IF UpdatePasswordFailed(success)
                          THEN Throw(q, errorResponder("SERVER",
                                          "password is not updated, Something is wrong"))
                          ELSE Respond(q, [id |-> q.id, password_new |-> q.password_new,
                                           message |-> "password was succesfully updated"])]
    /\ UNCHANGED nextId

(* ---------------- a service call throws ---------------- *)

AwaitedCalls ==
    {"getUsers", "getUser", "getUserByEmail", "createUser", "updateUser",
     "deleteUser", "updatePassword"}

(* The awaited call rejects: control passes to the handler's catch. *)
ServiceThrows(r) ==
    /\ reqs[r].pc \in AwaitedCalls
    /\ reqs' = [reqs EXCEPT ![r] = Throw(Called(@, @.pc), ServiceException)]
    /\ UNCHANGED <<users, nextId>>

(* The request is over; the next one is handled independently. *)
Reset(r) ==
    /\ reqs[r].pc = "done"
    /\ reqs' = [reqs EXCEPT ![r] = Idle]
    /\ UNCHANGED <<users, nextId>>

Next ==
    \E r \in Req :
        \/ GetUsersStart(r)
        \/ GetUsersAwait(r)
        \/ \E id \in Ids : GetUserStart(r, id)
        \/ GetUserAwait(r)
        \/ \E name \in Names, email \in Emails, password \in Passwords,
              password_confirm \in Passwords :
                CreateUserStart(r, name, email, password, password_confirm)
        \/ CreateUserAwaitGetUserByEmail(r)
        \/ CreateUserAwaitCreateUser(r)
        \/ \E id \in Ids, name \in Names, email \in Emails :
                UpdateUserStart(r, id, name, email)
        \/ UpdateUserAwait(r)
        \/ \E id \in Ids : DeleteUserStart(r, id)
        \/ DeleteUserAwait(r)
        \/ \E id \in Ids, password_old \in Passwords, password_new \in Passwords,
              password_new_confirm \in Passwords :
                UpdatePasswordStart(r, id, password_old, password_new,
                                    password_new_confirm)
        \/ UpdatePasswordAwaitGetUser(r)
        \/ UpdatePasswordAwaitUpdatePassword(r)
        \/ Reset(r)

(* Every service call returns. *)
Spec == Init /\ [][Next]_vars

NextThrow == Next \/ \E r \in Req : ServiceThrows(r)

(* Service calls may also throw. *)
SpecThrow == Init /\ [][NextThrow]_vars

(* ======================= properties ======================= *)

Done(r) == reqs[r].pc = "done"

(* The request ended with next(error), error of this type and message. *)
Failed(q, type, message) ==
    /\ q.pc = "done" /\ q.nexts = 1 /\ q.responses = 0 /\ q.status = 0
    /\ q.error = errorResponder(type, message)

(* The request ended with the 200 response. *)
Succeeded(q) ==
    q.pc = "done" /\ q.responses = 1 /\ q.nexts = 0 /\ q.status = 200

(* In this step request r's awaited service call `call` returns. *)
Returns(r, handler, call) ==
    /\ reqs[r].handler = handler /\ reqs[r].pc = call
    /\ reqs'[r].handler = handler /\ reqs'[r].pc # call

(* In this step request r arrives: its handler is invoked. *)
Arrives(r, handler) == reqs[r].pc = "idle" /\ reqs'[r].handler = handler

EmailInStore(email) == \E i \in Ids : users[i] # NULL /\ users[i].email = email

(* C1: in every reachable state no two distinct stored users have the same
   email. *)
C1_UniqueEmails ==
    \A i, j \in Ids :
        (i # j /\ users[i] # NULL /\ users[j] # NULL)
            => users[i].email # users[j].email

(* C2 as stated: every createUser request whose email is the email of a
   stored user ends with EMAIL_ALREADY_TAKEN, without a createUser call and
   without changing the store - whether it ends on arrival or at its
   lookup. *)
C2_Original ==
    [][\A r \in Req :
          /\ (Arrives(r, "createUser") /\ EmailInStore(reqs'[r].email)
                /\ reqs'[r].pc = "done")
                => Failed(reqs'[r], "EMAIL_ALREADY_TAKEN",
                          "Failed to create user, email is already taken")
          /\ (Returns(r, "createUser", "getUserByEmail")
                /\ EmailInStore(reqs[r].email))
                => /\ Failed(reqs'[r], "EMAIL_ALREADY_TAKEN",
                             "Failed to create user, email is already taken")
                   /\ "createUser" \notin reqs'[r].calls
                   /\ users' = users /\ ~reqs'[r].changed]_vars

(* C2 amended: every createUser request with password = password_confirm
   whose email is the email of a stored user when its getUserByEmail lookup
   runs ends with EMAIL_ALREADY_TAKEN, never calls usersService.createUser
   and does not change the store. *)
C2_EmailAlreadyTaken ==
    [][\A r \in Req :
          (Returns(r, "createUser", "getUserByEmail")
             /\ reqs[r].password = reqs[r].password_confirm
             /\ EmailInStore(reqs[r].email))
             => /\ Failed(reqs'[r], "EMAIL_ALREADY_TAKEN",
                          "Failed to create user, email is already taken")
                /\ "createUser" \notin reqs'[r].calls
                /\ users' = users /\ ~reqs'[r].changed]_vars

C2_Witness ==
    \E r \in Req :
        /\ reqs[r].handler = "createUser"
        /\ reqs[r].password = reqs[r].password_confirm
        /\ EmailInStore(reqs[r].email)
        /\ Failed(reqs[r], "EMAIL_ALREADY_TAKEN",
                  "Failed to create user, email is already taken")
        /\ reqs[r].calls = {"getUserByEmail"}

(* C3: a createUser request with password # password_confirm ends with
   INVALID_PASSWORD, has made no service call and has not changed the store,
   whether or not its email is taken. *)
C3_CreatePasswordMismatch ==
    \A r \in Req :
        (reqs[r].handler = "createUser"
           /\ reqs[r].password # reqs[r].password_confirm)
           => /\ Failed(reqs[r], "INVALID_PASSWORD",
                        "Failed to create user, password is not same")
              /\ reqs[r].calls = {}
              /\ ~reqs[r].changed

C3_Witness ==
    \E r \in Req :
        /\ reqs[r].handler = "createUser"
        /\ reqs[r].password # reqs[r].password_confirm
        /\ EmailInStore(reqs[r].email)
        /\ Done(r) /\ reqs[r].calls = {}

(* C4: when the getUser lookup of an updatePassword request (its new
   passwords equal) finds the user and password_old does not match the stored
   credential, the request ends with INVALID_PASSWORD ("wrong password"),
   usersService.updatePassword is not called and the stored credential is
   unchanged. *)
C4_WrongOldPassword ==
    [][\A r \in Req :
          (Returns(r, "updatePassword", "getUser")
             /\ users[reqs[r].id] # NULL
             /\ ~passwordMatched(reqs[r].password_old, users[reqs[r].id].password))
             => /\ reqs[r].password_new = reqs[r].password_new_confirm
                /\ Failed(reqs'[r], "INVALID_PASSWORD",
                          "Failed to update password, wrong password")
                /\ "updatePassword" \notin reqs'[r].calls
                /\ ~reqs'[r].changed
                /\ users'[reqs[r].id] = users[reqs[r].id]]_vars

C4_Witness ==
    \E r \in Req :
        /\ reqs[r].handler = "updatePassword"
        /\ Failed(reqs[r], "INVALID_PASSWORD",
                  "Failed to update password, wrong password")
        /\ reqs[r].user # NULL /\ reqs[r].user # NONE
        /\ ~passwordMatched(reqs[r].password_old, reqs[r].user.password)

(* C5: an updatePassword request gets the 200 response only if its new
   passwords are equal and password_old matches the credential stored for the
   user at the moment the store is updated; after the update the stored
   credential matches password_new. *)
C5_SuccessOnlyIfOldMatches ==
    [][\A r \in Req :
          (Returns(r, "updatePassword", "updatePassword") /\ Succeeded(reqs'[r]))
             => /\ reqs[r].password_new = reqs[r].password_new_confirm
                /\ users[reqs[r].id] # NULL
                /\ passwordMatched(reqs[r].password_old, users[reqs[r].id].password)
                /\ passwordMatched(reqs[r].password_new, users'[reqs[r].id].password)]_vars

(* C6: once a deleteUser request for id got the 200 response, the user is
   gone for good (ids are not reused), and a getUser call for that id made
   after it ends with UNPROCESSABLE_ENTITY. *)
C6_DeletedThenUnknown ==
    /\ [](\A r \in Req :
            (reqs[r].handler = "deleteUser" /\ Succeeded(reqs[r]))
               => users[reqs[r].id] = NULL)
    /\ [][\A r1, r2 \in Req :
            (reqs[r1].handler = "deleteUser" /\ Succeeded(reqs[r1])
               /\ Returns(r2, "getUser", "getUser")
               /\ reqs[r2].id = reqs[r1].id)
               => Failed(reqs'[r2], "UNPROCESSABLE_ENTITY", "Unknown user")]_vars

C6_Witness ==
    \E r1, r2 \in Req :
        /\ reqs[r1].handler = "deleteUser" /\ Succeeded(reqs[r1])
        /\ reqs[r1].changed
        /\ reqs[r2].handler = "getUser" /\ reqs[r2].id = reqs[r1].id
        /\ Failed(reqs[r2], "UNPROCESSABLE_ENTITY", "Unknown user")

(* The user exactly as request q created it. *)
AsCreated(q) == User(q.createdId, q.name, q.email, q.password)

(* C7: a createUser request (passwords equal, email not in the store) whose
   service creation succeeds responds 200 with exactly {name, email} and the
   store holds the new user under a fresh id with that name and email; a
   getUser call for that id made after it, the user not changed since,
   responds 200 with a user of the same name and email. *)
C7_CreateThenGet ==
    /\ [][\A r \in Req :
            (Returns(r, "createUser", "createUser") /\ reqs'[r].success)
               => /\ Succeeded(reqs'[r])
                  /\ reqs'[r].body = [name |-> reqs[r].name, email |-> reqs[r].email]
                  /\ reqs'[r].createdId \in Ids
                  /\ users[reqs'[r].createdId] = NULL
                  /\ users'[reqs'[r].createdId] = AsCreated(reqs'[r])
                  /\ users'[reqs'[r].createdId].name = reqs[r].name
                  /\ users'[reqs'[r].createdId].email = reqs[r].email]_vars
    /\ [][\A r1, r2 \in Req :
            (reqs[r1].handler = "createUser" /\ Succeeded(reqs[r1])
               /\ Returns(r2, "getUser", "getUser")
               /\ reqs[r2].id = reqs[r1].createdId
               /\ users[reqs[r2].id] = AsCreated(reqs[r1]))
               => /\ Succeeded(reqs'[r2])
                  /\ reqs'[r2].body.name = reqs[r1].name
                  /\ reqs'[r2].body.email = reqs[r1].email]_vars

C7_Witness ==
    \E r1, r2 \in Req :
        /\ reqs[r1].handler = "createUser" /\ Succeeded(reqs[r1])
        /\ reqs[r1].body = [name |-> reqs[r1].name, email |-> reqs[r1].email]
        /\ reqs[r2].handler = "getUser" /\ Succeeded(reqs[r2])
        /\ reqs[r2].id = reqs[r1].createdId
        /\ reqs[r2].body = AsCreated(reqs[r1])

(* C8: a getUser request for an id that is not the id of a stored user ends
   with UNPROCESSABLE_ENTITY ("Unknown user") passed to next and no 200
   response; for the id of a stored user it responds 200 with that user. *)
C8_GetUser ==
    [][\A r \in Req :
          Returns(r, "getUser", "getUser")
             => IF users[reqs[r].id] = NULL
                THEN Failed(reqs'[r], "UNPROCESSABLE_ENTITY", "Unknown user")
                ELSE /\ Succeeded(reqs'[r])
                     /\ reqs'[r].body = users[reqs[r].id]]_vars

C8_Witness ==
    \E r1, r2 \in Req :
        /\ reqs[r1].handler = "getUser"
        /\ Failed(reqs[r1], "UNPROCESSABLE_ENTITY", "Unknown user")
        /\ reqs[r2].handler = "getUser" /\ Succeeded(reqs[r2])
        /\ reqs[r2].body.id = reqs[r2].id

(* C9: a handler invocation that has ended has sent the 200 response or
   called next(error), exactly one of the two and exactly once; one still
   running has done neither.  The error passed to next is the error that was
   thrown (by a validation check or by a service call), unchanged, and then
   no response was sent. *)
C9_OneOutcome ==
    \A r \in Req :
        /\ reqs[r].pc = "done" => reqs[r].responses + reqs[r].nexts = 1
        /\ reqs[r].pc # "done" => reqs[r].responses + reqs[r].nexts = 0
        /\ reqs[r].thrown # NONE
             => /\ reqs[r].nexts = 1 /\ reqs[r].responses = 0 /\ reqs[r].status = 0
                /\ reqs[r].error = reqs[r].thrown
        /\ reqs[r].nexts = 1 => reqs[r].thrown # NONE
        /\ reqs[r].responses = 1 => reqs[r].status = 200

C9_Witness ==
    \E r1, r2 \in Req :
        /\ Done(r1) /\ reqs[r1].thrown = ServiceException
        /\ reqs[r1].error = ServiceException /\ reqs[r1].nexts = 1
        /\ Done(r2) /\ reqs[r2].handler = "updatePassword"
        /\ reqs[r2].thrown # NONE /\ reqs[r2].thrown.type = "INVALID_PASSWORD"
        /\ reqs[r2].error = reqs[r2].thrown

(* C10: updatePassword checks in the order new passwords equal, user
   exists, old password matches, service update succeeded, and reports the
   first check that fails: unequal new passwords give INVALID_PASSWORD with
   no service call even for an id without a user; an id without a user gives
   UNPROCESSABLE_ENTITY; SERVER is reported only after the first three checks
   passed and usersService.updatePassword reported failure. *)
C10_CheckOrder ==
    /\ [](\A r \in Req :
            /\ (reqs[r].handler = "updatePassword"
                  /\ reqs[r].password_new # reqs[r].password_new_confirm)
                  => /\ Failed(reqs[r], "INVALID_PASSWORD",
                               "Failed to update password, new password is not same")
                     /\ reqs[r].calls = {}
            /\ (Done(r) /\ reqs[r].error # NONE /\ reqs[r].error.type = "SERVER")
                  => /\ reqs[r].handler = "updatePassword"
                     /\ reqs[r].password_new = reqs[r].password_new_confirm
                     /\ reqs[r].user # NONE /\ reqs[r].user # NULL
                     /\ passwordMatched(reqs[r].password_old, reqs[r].user.password)
                     /\ reqs[r].calls = {"getUser", "updatePassword"}
                     /\ reqs[r].success = FALSE)
    /\ [][\A r \in Req :
            (Returns(r, "updatePassword", "getUser") /\ users[reqs[r].id] = NULL)
               => Failed(reqs'[r], "UNPROCESSABLE_ENTITY", "Unknown user")]_vars

C10_Witness ==
    \E r1, r2 \in Req :
        /\ reqs[r1].handler = "updatePassword"
        /\ reqs[r1].password_new # reqs[r1].password_new_confirm
        /\ users[reqs[r1].id] = NULL
        /\ Done(r1) /\ reqs[r1].error.type = "INVALID_PASSWORD"
        /\ reqs[r2].handler = "updatePassword"
        /\ Done(r2) /\ reqs[r2].error # NONE /\ reqs[r2].error.type = "SERVER"

====
